---- MODULE Spec2Model ----
(***************************************************************************)
(* Model of the rankorder package: the tie-breaking rank assignment of     *)
(* rankorder/utility.py, the transform pipeline A -> R -> P -> Q of        *)
(* rankorder/transform.py and the direct reference computation of Q of    *)
(* tests/test_transform.py.                                                *)
(*                                                                         *)
(* Conventions.  A numpy vector is a TLA+ sequence and a numpy matrix a    *)
(* sequence of rows; position p of a sequence is index p-1 of the array.   *)
(* Values stored in the arrays (ranks, permutation entries, sorter         *)
(* entries) keep the zero-based values of the code.  Real data values are  *)
(* integers (only their order matters to the ranking) and real results    *)
(* (the cells of Q) are exact fractions [num, den].                        *)
(***************************************************************************)
EXTENDS Integers, Sequences, FiniteSets, TLC

VARIABLES
    fn,       \* the entry function the caller invoked
    pc,       \* position inside the running call
    err,      \* the exception raised, NoError while none
    method,   \* argument method of rankdata / data_to_q_matrix
    a,        \* argument a of utility.rankdata (the caller's array)
    arr,      \* local a of utility.rankdata after asarray / a[perm]
    perm,     \* local perm of utility.rankdata
    sorter,   \* local sorter of utility.rankdata
    ranks,    \* local ranks of utility.rankdata, its return value
    prev,     \* the return value of the previous call on the same input
    A,        \* data matrix
    R,        \* rank matrix
    P,        \* population matrix
    n_r,      \* number of repetitions
    sigma,    \* local sigma of q_matrix
    ind,      \* local ind of q_matrix
    D,        \* local D of q_matrix
    Q,        \* return value of q_matrix
    Qslow,    \* return value of q_matrix_slow
    func,     \* argument func of q_rms_fit (the model function)
    params,   \* argument params of q_rms_fit
    xdata,    \* argument xdata of q_rms_fit
    ydata,    \* argument ydata of q_rms_fit
    weights,  \* argument weights of q_rms_fit
    rms       \* return value of q_rms_fit

vars == <<fn, pc, err, method, a, arr, perm, sorter, ranks, prev,
          A, R, P, n_r, sigma, ind, D, Q, Qslow,
          func, params, xdata, ydata, weights, rms>>

rankVars == <<a, arr, perm, sorter, ranks, prev>>
matVars  == <<A, R, P, n_r, sigma, ind, D, Q, Qslow>>
fitVars  == <<func, params, xdata, ydata, weights, rms>>

(***************************************************************************)
(* Bounds of the model.                                                    *)
(***************************************************************************)
MaxLen   == 3   \* longest array handed to utility.rankdata
MaxVal   == 2   \* data values are drawn from 1..MaxVal
MaxNr    == 2   \* most repetitions (rows) of a data / rank matrix
MaxNs    == 2   \* most sampling points (columns) of a data / rank matrix
MaxRect  == 2   \* most rows / columns of an unconstrained matrix P
MaxDim   == 3   \* largest n_s of a sum-completed matrix P
MaxEntry == 1   \* entries of the free block of a sum-completed matrix P
MaxTotal == 2   \* largest n_r handed to q_matrix directly
MaxFitNr == 1   \* most repetitions of the ydata handed to q_rms_fit
MaxFitNs == 2   \* most sampling points of the ydata handed to q_rms_fit

(***************************************************************************)
(* Generic array helpers.                                                  *)
(***************************************************************************)
Max(x, y) == IF x >= y THEN x ELSE y

Abs(x) == IF x >= 0 THEN x ELSE -x

RECURSIVE SeqSum(_)
SeqSum(s) == IF s = << >> THEN 0 ELSE Head(s) + SeqSum(Tail(s))

RECURSIVE SeqMax(_)
SeqMax(s) == IF Len(s) = 1 THEN Head(s) ELSE Max(Head(s), SeqMax(Tail(s)))

\* numpy arange(lo, hi)
Arange(lo, hi) == [i \in 1..Max(hi - lo, 0) |-> lo + i - 1]

\* numpy fancy indexing x[idx] with a zero-based index array
Take(x, idx) == [i \in 1..Len(idx) |-> x[idx[i] + 1]]

\* Shape of a matrix stored as a sequence of rows
NRows(M) == Len(M)
NCols(M) == IF Len(M) = 0 THEN 0 ELSE Len(M[1])
Shape(M) == <<NRows(M), NCols(M)>>

Column(M, k) == [i \in 1..NRows(M) |-> M[i][k]]

\* all sequences of length n over the set S
SeqsOf(S, n) == [1..n -> S]

\* all matrices with nr rows and nc columns over the set S
MatricesOf(S, nr, nc) == [1..nr -> [1..nc -> S]]

\* all permutations of 0..n-1, the values numpy.random.permutation(n) can return
PermutationsOf(n) ==
    {p \in [1..n -> 0..(n - 1)] : \A i, j \in 1..n : i # j => p[i] # p[j]}

(***************************************************************************)
(* Exceptions.                                                             *)
(***************************************************************************)
NoError == [type |-> "none", text |-> "", arg |-> ""]

\* utility.py line 33 (and the same check of scipy.stats.rankdata):
\* ValueError('unknown method "{}"'.format(method))
UnknownMethodUnnamed(m) == [type |-> "ValueError", text |-> "unknown method", arg |-> ""]

UnknownMethod(m) == [type |-> "ValueError", text |-> "unknown method", arg |-> m]

\* transform.py line 105
NotSquare == [type |-> "Exception", text |-> "matrix P must be square", arg |-> ""]

\* transform.py line 113
SumRuleBroken ==
    [type |-> "Exception",
     text |-> "columns and rows in matrix P must sum up to n_r", arg |-> ""]

\* numpy's error when apply_along_axis gets results of different lengths
BroadcastError ==
    [type |-> "ValueError", text |-> "could not broadcast input array",
     arg |-> ""]

(***************************************************************************)
(* rankorder/utility.py : rankdata                                         *)
(***************************************************************************)
UtilityMethods == {"ordinal", "random"}

\* merge step of the stable merge sort: on equal keys the element of the
\* left run (the earlier positions) is taken first
RECURSIVE MergeUnstable(_, _, _)
MergeUnstable(x, left, right) ==
    IF left = << >> THEN right
    ELSE IF right = << >> THEN left
    ELSE IF x[Head(right) + 1] <= x[Head(left) + 1]
         THEN <<Head(right)>> \o MergeUnstable(x, left, Tail(right))
         ELSE <<Head(left)>> \o MergeUnstable(x, Tail(left), right)

RECURSIVE Merge(_, _, _)
Merge(x, left, right) ==
    IF left = << >> THEN right
    ELSE IF right = << >> THEN left
    ELSE IF x[Head(right) + 1] < x[Head(left) + 1]
         THEN <<Head(right)>> \o Merge(x, left, Tail(right))
         ELSE <<Head(left)>> \o Merge(x, Tail(left), right)

RECURSIVE MergeSort(_, _)
MergeSort(x, idx) ==
    IF Len(idx) <= 1 THEN idx
    ELSE LET h == Len(idx) \div 2
         IN  Merge(x, MergeSort(x, SubSeq(idx, 1, h)),
                      MergeSort(x, SubSeq(idx, h + 1, Len(idx))))

\* np.argsort(x, kind='mergesort')
Argsort(x) == MergeSort(x, Arange(0, Len(x)))

\* ranks = np.empty(sorter.size); ranks[sorter] = np.arange(sorter.size)
InverseForgotten(s) == s

InversePermutation(s) ==
    [p \in 1..Len(s) |-> (CHOOSE i \in 1..Len(s) : s[i] = p - 1) - 1]

\* inv = np.argsort(perm, kind='mergesort'); ranks = ranks[inv]
UnpermuteForgotten(rk, pm) == rk

Unpermute(rk, pm) == Take(rk, Argsort(pm))

(***************************************************************************)
(* scipy.stats.rankdata, the ranking function rankorder/transform.py       *)
(* imports (line 36).  Ranks start at one.  The method 'average' returns   *)
(* half-integers and is accepted by the method check but never drawn as    *)
(* an input of the model.                                                  *)
(***************************************************************************)
ScipyMethods == {"average", "min", "max", "dense", "ordinal"}

ScipyRankdataTiesBroken(x, m) ==
    LET inv == InversePermutation(Argsort(x))
    IN  [p \in 1..Len(x) |-> inv[p] + 1]

ScipyRankdata(x, m) ==
    IF m = "ordinal" THEN
        LET inv == InversePermutation(Argsort(x))
        IN  [p \in 1..Len(x) |-> inv[p] + 1]
    ELSE IF m = "min" THEN
        [p \in 1..Len(x) |-> Cardinality({q \in 1..Len(x) : x[q] < x[p]}) + 1]
    ELSE IF m = "max" THEN
        [p \in 1..Len(x) |-> Cardinality({q \in 1..Len(x) : x[q] <= x[p]})]
    ELSE \* dense
        [p \in 1..Len(x) |->
            Cardinality({x[q] : q \in {q \in 1..Len(x) : x[q] <= x[p]}})]

(***************************************************************************)
(* rankorder/transform.py                                                  *)
(***************************************************************************)
\* r_matrix: np.apply_along_axis(rankdata, 1, A, method) - 1
r_matrix(M, m) ==
    [i \in 1..NRows(M) |->
        [k \in 1..NCols(M) |-> ScipyRankdata(M[i], m)[k] - 1]]

\* np.bincount(x, minlength=n): out[v] counts the entries equal to v, for
\* v in 0..max(n, max(x)+1)-1
BincountNoMinlength(x, n) ==
    [v \in 1..(SeqMax(x) + 1) |->
        Cardinality({i \in 1..Len(x) : x[i] = v - 1})]

Bincount(x, n) ==
    [v \in 1..Max(n, SeqMax(x) + 1) |->
        Cardinality({i \in 1..Len(x) : x[i] = v - 1})]

\* p_matrix: np.apply_along_axis(np.bincount, 0, R, minlength=n_s); the
\* histogram of column k of R becomes column k of the result
Histograms(M) == [k \in 1..NCols(M) |-> Bincount(Column(M, k), NCols(M))]

\* apply_along_axis sizes its result after the first histogram and fails to
\* store a histogram of another length
Ragged(hist) == \E k \in 1..Len(hist) : Len(hist[k]) # Len(hist[1])

p_matrix(M) ==
    LET hist == Histograms(M)
    IN  [r \in 1..Len(hist[1]) |-> [k \in 1..NCols(M) |-> hist[k][r]]]

\* np.sum(P, axis=0) and np.sum(P, axis=1)
SumAxis0(M) == [k \in 1..NCols(M) |-> SeqSum(Column(M, k))]
SumAxis1(M) == [i \in 1..NRows(M) |-> SeqSum(M[i])]

\* np.allclose(x, b): |x - b| <= atol + rtol*|b| for every entry of x, with
\* the defaults atol = 1e-8 and rtol = 1e-5; both sides are scaled by 1e8
AllcloseScale == 100000000
AllcloseRtol  == 1000

AllcloseFirstOnly(x, b) ==
    Len(x) = 0 \/ Abs(x[1] - b) * AllcloseScale <= 1 + AllcloseRtol * Abs(b)

Allclose(x, b) ==
    \A i \in 1..Len(x) : Abs(x[i] - b) * AllcloseScale <= 1 + AllcloseRtol * Abs(b)

\* np.cumsum(M, axis=0) and np.cumsum(M, axis=1)
CumsumAxis0(M) ==
    [i \in 1..NRows(M) |-> [k \in 1..NCols(M) |->
        SeqSum(SubSeq(Column(M, k), 1, i))]]
CumsumAxis1(M) ==
    [i \in 1..NRows(M) |-> [k \in 1..NCols(M) |-> SeqSum(SubSeq(M[i], 1, k))]]

\* M[:-1, :-1]
DropLast(M) ==
    [i \in 1..(NRows(M) - 1) |-> [k \in 1..(NCols(M) - 1) |-> M[i][k]]]

\* sigma = np.cumsum(np.cumsum(P, axis=0), axis=1)[:-1, :-1]
SigmaNoRowCumsum(M) == DropLast(CumsumAxis1(M))

Sigma(M) == DropLast(CumsumAxis1(CumsumAxis0(M)))

\* ind = 2.0*j*k - (j + k)*n_s with j, k = 1..n_s-1
IndThroughNs(n_s) ==
    [j \in 1..n_s |-> [k \in 1..n_s |-> 2*j*k - (j + k)*n_s]]

Ind(n_s) ==
    [j \in 1..(n_s - 1) |-> [k \in 1..(n_s - 1) |-> 2*j*k - (j + k)*n_s]]

\* D = - ind * (ind + n_s**2)
DmatNoNegation(id, n_s) ==
    [j \in 1..Len(id) |-> [k \in 1..Len(id) |->
        id[j][k] * (id[j][k] + n_s*n_s)]]

Dmat(id, n_s) ==
    [j \in 1..Len(id) |-> [k \in 1..Len(id) |->
        (0 - id[j][k]) * (id[j][k] + n_s*n_s)]]

\* Q = 2*n_s**2 * (n_s*sigma - j*k*n_r) / (D * n_r)
QfastWrongSign(sg, d, n_s, nr) ==
    [j \in 1..Len(sg) |-> [k \in 1..Len(sg) |->
        [num |-> 2*n_s*n_s * (n_s*sg[j][k] + j*k*nr), den |-> d[j][k] * nr]]]

Qfast(sg, d, n_s, nr) ==
    [j \in 1..Len(sg) |-> [k \in 1..Len(sg) |->
        [num |-> 2*n_s*n_s * (n_s*sg[j][k] - j*k*nr), den |-> d[j][k] * nr]]]

(***************************************************************************)
(* tests/test_transform.py                                                 *)
(***************************************************************************)
\* sum and size of the block M[r1..r2, c1..c2] (one-based, inclusive)
BlockSum(M, r1, r2, c1, c2) ==
    SeqSum([i \in 1..Max(r2 - r1 + 1, 0) |->
        SeqSum(SubSeq(M[r1 + i - 1], c1, c2))])
BlockSize(r1, r2, c1, c2) == Max(r2 - r1 + 1, 0) * Max(c2 - c1 + 1, 0)

\* one cell of q_matrix_slow; j, k are the one-based cut positions, that is
\* the zero-based loop indices of the code plus one
\*   S1 = P[:j, k:]  S2 = P[:j, :k]  S3 = P[j:, :k]  S4 = P[j:, k:]
\*   n_s / n_r * ((S2.sum() + S4.sum())/(S2.size + S4.size)
\*              - (S1.sum() + S3.sum())/(S1.size + S3.size))
QslowCell(M, nr, j, k) ==
    LET n_s  == NRows(M)
        s1   == BlockSum(M, 1, j, k + 1, n_s)
        s2   == BlockSum(M, 1, j, 1, k)
        s3   == BlockSum(M, j + 1, n_s, 1, k)
        s4   == BlockSum(M, j + 1, n_s, k + 1, n_s)
        z1   == BlockSize(1, j, k + 1, n_s)
        z2   == BlockSize(1, j, 1, k)
        z3   == BlockSize(j + 1, n_s, 1, k)
        z4   == BlockSize(j + 1, n_s, k + 1, n_s)
    IN  [num |-> n_s * ((s2 + s4) * (z1 + z3) - (s1 + s3) * (z2 + z4)),
         den |-> nr * (z2 + z4) * (z1 + z3)]

q_matrix_slow(M, nr) ==
    [j \in 1..(NRows(M) - 1) |-> [k \in 1..(NRows(M) - 1) |->
        QslowCell(M, nr, j, k)]]

\* sumified_matrix(a, total): a is the upper left block, the last row and
\* column complete every column and row sum to total
sumified_matrix(blk, total) ==
    LET n == NRows(blk)
    IN  [i \in 1..(n + 1) |-> [k \in 1..(n + 1) |->
            IF i <= n /\ k <= n THEN blk[i][k]
            ELSE IF i = n + 1 /\ k <= n THEN total - SeqSum(Column(blk, k))
            ELSE IF i <= n /\ k = n + 1 THEN total - SeqSum(blk[i])
            ELSE SeqSum([r \in 1..n |-> SeqSum(blk[r])]) - (n - 1) * total]]

\* equality of two exact fractions with non-zero denominators
RatEq(x, y) == x.num * y.den = y.num * x.den

(***************************************************************************)
(* rankorder/fitting.py                                                    *)
(***************************************************************************)
RECURSIVE Gcd(_, _)
Gcd(x, y) == IF y = 0 THEN Abs(x) ELSE Gcd(y, x % Abs(y))

\* a fraction in lowest terms with a positive denominator; 0/0 is kept
Reduce(x) ==
    IF x.den = 0 THEN x
    ELSE LET g == Gcd(x.num, x.den)
             sg == IF x.den < 0 THEN 0 - 1 ELSE 1
         IN  [num |-> sg * (x.num \div g), den |-> sg * (x.den \div g)]

FracAdd(x, y) ==
    Reduce([num |-> x.num * y.den + y.num * x.den, den |-> x.den * y.den])

FracSquare(x) ==
    LET r == Reduce(x) IN [num |-> r.num * r.num, den |-> r.den * r.den]

RECURSIVE FracSum(_)
FracSum(s) ==
    IF s = << >> THEN [num |-> 0, den |-> 1]
    ELSE FracAdd(Head(s), FracSum(Tail(s)))

\* the cells of a matrix in row-major order
Flatten(M) ==
    [c \in 1..(NRows(M) * NCols(M)) |->
        M[((c - 1) \div NCols(M)) + 1][((c - 1) % NCols(M)) + 1]]

\* the model functions a caller passes as func: f(x, c) = c and
\* f(x, m) = m*x
ModelFunctions == {"constant", "linear"}

\* y = func(xdata, *params), shape (n_s, )
Predict(f, x, pr) ==
    [k \in 1..Len(x) |-> IF f = "constant" THEN pr[1] ELSE pr[1] * x[k]]

\* the argument weights: None, an array of shape (n_s, ) or of shape
\* (n_r, n_s)
NoWeights == [shape |-> "none", w |-> << >>]

\* q_matrix_fit lines 48-51: residuals = ydata - y, or
\* weights * (ydata - y), with numpy broadcasting over the repetitions
ResidualsUnweighted(yd, y, wt) ==
    [i \in 1..NRows(yd) |-> [k \in 1..NCols(yd) |-> yd[i][k] - y[k]]]

Residuals(yd, y, wt) ==
    [i \in 1..NRows(yd) |-> [k \in 1..NCols(yd) |->
        IF wt.shape = "none" THEN yd[i][k] - y[k]
        ELSE IF wt.shape = "vector" THEN wt.w[k] * (yd[i][k] - y[k])
        ELSE wt.w[i][k] * (yd[i][k] - y[k])]]

\* np.mean(Q**2): the sum of the squared cells over the number of cells;
\* the mean of an empty array is nan, kept as 0/0
MeanSquare(Qm) ==
    LET sq == [c \in 1..Len(Flatten(Qm)) |-> FracSquare(Flatten(Qm)[c])]
    IN  IF Len(sq) = 0 THEN [num |-> 0, den |-> 0]
        ELSE Reduce([num |-> FracSum(sq).num, den |-> FracSum(sq).den * Len(sq)])

\* np.sqrt(x): the root is kept symbolically by its radicand; the root of
\* nan or of a negative number is nan
Sqrt(x) ==
    IF x.den = 0 \/ x.num < 0 THEN [kind |-> "nan", sqrt_of |-> x]
    ELSE [kind |-> "real", sqrt_of |-> x]

NoRms == [kind |-> "unset", sqrt_of |-> [num |-> 0, den |-> 1]]

(***************************************************************************)
(* Inputs of the calls.                                                    *)
(***************************************************************************)
Values == 1..MaxVal

\* mode names a caller may pass; "bogus" stands for any unsupported name
Methods == {"ordinal", "random", "min", "max", "dense", "bogus"}

\* arrays handed to utility.rankdata
RankInputs == UNION {SeqsOf(Values, n) : n \in 1..MaxLen}

\* the data matrix of the documented scenario (n_r = 2, n_s = 3)
ScenarioA == <<<<1, 2, 3>>, <<3, 1, 2>>>>

\* data matrices handed to data_to_q_matrix
DataMatrices ==
    UNION {MatricesOf(Values, nr, ns) : nr \in 1..MaxNr, ns \in 1..MaxNs}
    \cup {ScenarioA}

\* integer matrices handed to p_matrix: rank matrices with entries in
\* 0..n_s-1, and single rows that also hold the value n_s
RankMatrices ==
    UNION {MatricesOf(0..(ns - 1), nr, ns) : nr \in 1..MaxNr, ns \in 1..MaxNs}
    \cup UNION {MatricesOf(0..ns, 1, ns) : ns \in 1..MaxNs}

\* matrices handed to q_matrix without any constraint (square or not,
\* sum rule or not)
RectMatrices ==
    UNION {MatricesOf(0..1, n, m) : n \in 1..MaxRect, m \in 1..MaxRect}

\* the smallest n_r at which the tolerance atol + rtol*n_r of the sum check
\* reaches 1, and the population matrix of that many repetitions of two
\* samples ranked with method min, one repetition being a tie (ranks 0, 0),
\* half of them ranked (0, 1) and the others (1, 0)
LargeNr == AllcloseScale \div AllcloseRtol
LargePopulation ==
    <<<<LargeNr \div 2 + 1, LargeNr \div 2>>,
      <<LargeNr \div 2 - 1, LargeNr \div 2>>>>

\* the arguments (P, n_r) of the direct calls of q_matrix
QMatrixCalls ==
    (RectMatrices \X (1..MaxTotal)) \cup {<<LargePopulation, LargeNr>>}

\* matrices test_q_matrix builds: a free block completed to the sum rule
SumifiedMatrices(total) ==
    {sumified_matrix(blk, total) :
        blk \in UNION {MatricesOf(0..MaxEntry, n, n) : n \in 1..(MaxDim - 1)}}

\* data matrices handed to q_rms_fit as ydata
FitData ==
    UNION {MatricesOf(0..1, nr, ns) : nr \in 1..MaxFitNr, ns \in 1..MaxFitNs}

\* the values of a weight: a sign change and a stretch
WeightValues == {0 - 1, 2}

\* the weights handed to q_rms_fit with a ydata of shape (nr, ns)
FitWeights(nr, ns) ==
    {NoWeights}
    \cup {[shape |-> "vector", w |-> v] : v \in SeqsOf(WeightValues, ns)}
    \cup {[shape |-> "matrix", w |-> m] : m \in MatricesOf(WeightValues, nr, ns)}

\* no call of q_rms_fit is under way
FitIdle ==
    /\ func = "" /\ params = << >> /\ xdata = << >> /\ ydata = << >>
    /\ weights = NoWeights /\ rms = NoRms

\* a caller invokes utility.rankdata(a, method)
InitRankdata ==
    /\ fn = "rankdata" /\ pc = "rd_check" /\ err = NoError
    /\ a \in RankInputs /\ method \in Methods
    /\ arr = << >> /\ perm = << >> /\ sorter = << >> /\ ranks = << >>
    /\ prev = << >>
    /\ A = << >> /\ R = << >> /\ P = << >> /\ n_r = 0
    /\ sigma = << >> /\ ind = << >> /\ D = << >> /\ Q = << >> /\ Qslow = << >>
    /\ FitIdle

\* a caller invokes transform.data_to_q_matrix(A, method)
InitDataToQ ==
    /\ fn = "data_to_q_matrix" /\ pc = "dq_r" /\ err = NoError
    /\ A \in DataMatrices /\ method \in Methods
    /\ a = << >> /\ arr = << >> /\ perm = << >> /\ sorter = << >>
    /\ ranks = << >> /\ prev = << >>
    /\ R = << >> /\ P = << >> /\ n_r = 0
    /\ sigma = << >> /\ ind = << >> /\ D = << >> /\ Q = << >> /\ Qslow = << >>
    /\ FitIdle

\* a caller invokes transform.p_matrix(R)
InitPMatrix ==
    /\ fn = "p_matrix" /\ pc = "dq_p" /\ err = NoError
    /\ R \in RankMatrices /\ method = ""
    /\ a = << >> /\ arr = << >> /\ perm = << >> /\ sorter = << >>
    /\ ranks = << >> /\ prev = << >>
    /\ A = << >> /\ P = << >> /\ n_r = 0
    /\ sigma = << >> /\ ind = << >> /\ D = << >> /\ Q = << >> /\ Qslow = << >>
    /\ FitIdle

\* a caller invokes transform.q_matrix(P, n_r)
InitQMatrix ==
    /\ fn = "q_matrix" /\ pc = "q_square" /\ err = NoError
    /\ \E call \in QMatrixCalls : P = call[1] /\ n_r = call[2]
    /\ method = ""
    /\ a = << >> /\ arr = << >> /\ perm = << >> /\ sorter = << >>
    /\ ranks = << >> /\ prev = << >>
    /\ A = << >> /\ R = << >>
    /\ sigma = << >> /\ ind = << >> /\ D = << >> /\ Q = << >> /\ Qslow = << >>
    /\ FitIdle

\* test_q_matrix: P = sumified_matrix(block, total=n_r)
InitTestQ ==
    /\ fn = "test_q_matrix" /\ pc = "t_slow" /\ err = NoError
    /\ n_r \in 1..MaxTotal /\ P \in SumifiedMatrices(n_r) /\ method = ""
    /\ a = << >> /\ arr = << >> /\ perm = << >> /\ sorter = << >>
    /\ ranks = << >> /\ prev = << >>
    /\ A = << >> /\ R = << >>
    /\ sigma = << >> /\ ind = << >> /\ D = << >> /\ Q = << >> /\ Qslow = << >>
    /\ FitIdle

\* a caller invokes fitting.q_rms_fit(func, params, xdata, ydata, weights,
\* method) with xdata = 0, 1, ..., n_s-1
InitQRmsFit ==
    /\ fn = "q_rms_fit" /\ pc = "fit_res" /\ err = NoError
    /\ ydata \in FitData /\ method \in Methods
    /\ func \in ModelFunctions /\ params \in {<<0>>, <<1>>}
    /\ xdata = Arange(0, NCols(ydata))
    /\ weights \in FitWeights(NRows(ydata), NCols(ydata))
    /\ rms = NoRms
    /\ a = << >> /\ arr = << >> /\ perm = << >> /\ sorter = << >>
    /\ ranks = << >> /\ prev = << >>
    /\ A = << >> /\ R = << >> /\ P = << >> /\ n_r = 0
    /\ sigma = << >> /\ ind = << >> /\ D = << >> /\ Q = << >> /\ Qslow = << >>

Init ==
    \/ InitRankdata \/ InitDataToQ \/ InitPMatrix \/ InitQMatrix
    \/ InitTestQ \/ InitQRmsFit

(***************************************************************************)
(* utility.rankdata, one action per statement group.                       *)
(***************************************************************************)
\* lines 31-33: the method check
RankdataCheck ==
    /\ pc = "rd_check"
    /\ IF method \notin UtilityMethods
       THEN /\ err' = UnknownMethod(method)
            /\ pc' = "raised"
       ELSE /\ err' = err
            /\ pc' = "rd_permute"
    /\ UNCHANGED <<fn, method, rankVars, matVars, fitVars>>

\* lines 36-43: asarray and, for 'random', a = a[perm] with a drawn perm
RankdataPermute ==
    /\ pc = "rd_permute"
    /\ IF method = "random"
       THEN \E pm \in PermutationsOf(Len(a)) :
                /\ perm' = pm
                /\ arr' = Take(a, pm)
       ELSE /\ perm' = perm
            /\ arr' = a
    /\ pc' = "rd_sort"
    /\ UNCHANGED <<fn, err, method, a, sorter, ranks, prev, matVars, fitVars>>

\* line 48: sorter = np.argsort(a, kind='mergesort')
RankdataSort ==
    /\ pc = "rd_sort"
    /\ sorter' = Argsort(arr)
    /\ pc' = "rd_invert"
    /\ UNCHANGED <<fn, err, method, a, arr, perm, ranks, prev, matVars, fitVars>>

\* lines 51-52: ranks[sorter] = np.arange(sorter.size)
RankdataInvert ==
    /\ pc = "rd_invert"
    /\ ranks' = InversePermutation(sorter)
    /\ pc' = "rd_unpermute"
    /\ UNCHANGED <<fn, err, method, a, arr, perm, sorter, prev, matVars, fitVars>>

\* lines 55-61: undo the random permutation and return
RankdataReturn ==
    /\ pc = "rd_unpermute"
    /\ ranks' = IF method = "random" THEN Unpermute(ranks, perm) ELSE ranks
    /\ pc' = "done"
    /\ UNCHANGED <<fn, err, method, a, arr, perm, sorter, prev, matVars, fitVars>>

\* the caller keeps the returned ranks and calls rankdata again with the
\* same array and method
RankdataAgain ==
    /\ fn = "rankdata" /\ pc = "done"
    /\ prev' = <<ranks>>
    /\ arr' = << >> /\ perm' = << >> /\ sorter' = << >> /\ ranks' = << >>
    /\ pc' = "rd_check"
    /\ UNCHANGED <<fn, err, method, a, matVars, fitVars>>

(***************************************************************************)
(* transform.data_to_q_matrix, p_matrix and q_matrix.                      *)
(***************************************************************************)
\* data_to_q_matrix lines 150-153: n_r, n_s = A.shape; R = r_matrix(A, method)
\* scipy.stats.rankdata raises on a method it does not know
DataToQ_r_matrix ==
    /\ pc = "dq_r"
    /\ n_r' = NRows(A)
    /\ IF method \notin ScipyMethods
       THEN /\ err' = UnknownMethod(method)
            /\ pc' = "raised"
            /\ R' = R
       ELSE /\ err' = err
            /\ pc' = "dq_p"
            /\ R' = r_matrix(A, method)
    /\ UNCHANGED <<fn, method, rankVars, A, P, sigma, ind, D, Q, Qslow, fitVars>>

\* p_matrix lines 69-75 (data_to_q_matrix line 154)
P_matrix ==
    /\ pc = "dq_p"
    /\ n_r' = NRows(R)
    /\ IF Ragged(Histograms(R))
       THEN /\ err' = BroadcastError
            /\ pc' = "raised"
            /\ P' = P
       ELSE /\ err' = err
            /\ pc' = IF fn = "p_matrix" THEN "done" ELSE "q_square"
            /\ P' = p_matrix(R)
    /\ UNCHANGED <<fn, method, rankVars, A, R, sigma, ind, D, Q, Qslow, fitVars>>

\* test_q_matrix line 101: Q_slow = q_matrix_slow(P, n_r)
TestQSlow ==
    /\ pc = "t_slow"
    /\ IF NRows(P) # NCols(P)
       THEN /\ err' = NotSquare
            /\ pc' = "raised"
            /\ Qslow' = Qslow
       ELSE /\ err' = err
            /\ pc' = "q_square"
            /\ Qslow' = q_matrix_slow(P, n_r)
    /\ UNCHANGED <<fn, method, rankVars, A, R, P, n_r, sigma, ind, D, Q, fitVars>>

\* q_matrix lines 97-105: the shape is read and P must be square
QCheckSquare ==
    /\ pc = "q_square"
    /\ IF NRows(P) # NCols(P)
       THEN /\ err' = NotSquare
            /\ pc' = "raised"
       ELSE /\ err' = err
            /\ pc' = "q_sum"
    /\ UNCHANGED <<fn, method, rankVars, matVars, fitVars>>

\* q_matrix lines 108-113: the sum rule
QCheckSums ==
    /\ pc = "q_sum"
    /\ LET sum_check0 == Allclose(SumAxis0(P), n_r)
           sum_check1 == Allclose(SumAxis1(P), n_r)
       IN  IF ~(sum_check0 /\ sum_check1)
           THEN /\ err' = SumRuleBroken
                /\ pc' = "raised"
           ELSE /\ err' = err
                /\ pc' = "q_sigma"
    /\ UNCHANGED <<fn, method, rankVars, matVars, fitVars>>

\* q_matrix line 117: sigma
QSigma ==
    /\ pc = "q_sigma"
    /\ sigma' = Sigma(P)
    /\ pc' = "q_D"
    /\ UNCHANGED <<fn, err, method, rankVars, A, R, P, n_r, ind, D, Q, Qslow,
                   fitVars>>

\* q_matrix lines 122-126: j, k, ind and D
QIndD ==
    /\ pc = "q_D"
    /\ ind' = Ind(NRows(P))
    /\ D' = Dmat(Ind(NRows(P)), NRows(P))
    /\ pc' = "q_Q"
    /\ UNCHANGED <<fn, err, method, rankVars, A, R, P, n_r, sigma, Q, Qslow,
                   fitVars>>

\* q_matrix lines 129-131: Q is computed and returned
QCompute ==
    /\ pc = "q_Q"
    /\ Q' = Qfast(sigma, D, NRows(P), n_r)
    /\ pc' = IF fn = "q_rms_fit" THEN "fit_rms" ELSE "done"
    /\ UNCHANGED <<fn, err, method, rankVars, A, R, P, n_r, sigma, ind, D,
                   Qslow, fitVars>>

(***************************************************************************)
(* fitting.q_rms_fit and q_matrix_fit.                                     *)
(***************************************************************************)
\* q_rms_fit line 84 calls q_matrix_fit, lines 42-54: the shape, the
\* prediction, the residuals, and the call data_to_q_matrix(residuals, method)
QMatrixFit ==
    /\ pc = "fit_res"
    /\ n_r' = NRows(ydata)
    /\ A' = Residuals(ydata, Predict(func, xdata, params), weights)
    /\ pc' = "dq_r"
    /\ UNCHANGED <<fn, err, method, rankVars, R, P, sigma, ind, D, Q, Qslow,
                   fitVars>>

\* q_rms_fit line 87: return np.sqrt(np.mean(Q**2))
QRmsFit ==
    /\ pc = "fit_rms"
    /\ rms' = Sqrt(MeanSquare(Q))
    /\ pc' = "done"
    /\ UNCHANGED <<fn, err, method, rankVars, matVars,
                   func, params, xdata, ydata, weights>>

Next ==
    \/ QMatrixFit
    \/ QRmsFit
    \/ RankdataCheck
    \/ RankdataPermute
    \/ RankdataSort
    \/ RankdataInvert
    \/ RankdataReturn
    \/ RankdataAgain
    \/ DataToQ_r_matrix
    \/ P_matrix
    \/ TestQSlow
    \/ QCheckSquare
    \/ QCheckSums
    \/ QSigma
    \/ QIndD
    \/ QCompute

Spec == Init /\ [][Next]_vars

(***************************************************************************)
(* Properties.                                                             *)
(***************************************************************************)
\* the functions that run q_matrix
QCallers == {"q_matrix", "test_q_matrix", "data_to_q_matrix", "q_rms_fit"}

\* every row sum and every column sum of M equals total exactly
SumRule(M, total) ==
    /\ \A i \in 1..NRows(M) : SeqSum(M[i]) = total
    /\ \A k \in 1..NCols(M) : SeqSum(Column(M, k)) = total

\* some value occurs twice in x / some value occurs once in x
HasTie(x) == \E p, q \in 1..Len(x) : p # q /\ x[p] = x[q]
Untied(x, p) == \A q \in 1..Len(x) : q # p => x[q] # x[p]

\* C1: whenever q_matrix has returned Q for a square P (n_s >= 2) that
\* obeys the sum rule, Q has n_s-1 rows and columns and every cell equals
\* the cell of the direct partition formula: the matrix q_matrix_slow
\* returned in test_q_matrix, and the partition formula evaluated on P for
\* every other caller.
C1_FastEqualsSlow ==
    (fn \in QCallers /\ pc = "done" /\ NRows(P) >= 2 /\ SumRule(P, n_r)) =>
        /\ NRows(Q) = NRows(P) - 1
        /\ \A j \in 1..NRows(Q) :
              /\ Len(Q[j]) = NRows(P) - 1
              /\ \A k \in 1..NRows(Q) :
                    /\ Q[j][k].den # 0
                    /\ QslowCell(P, n_r, j, k).den # 0
                    /\ RatEq(Q[j][k], QslowCell(P, n_r, j, k))
                    /\ fn = "test_q_matrix" =>
                          /\ Qslow[j][k].den # 0
                          /\ RatEq(Q[j][k], Qslow[j][k])

\* a 3x3 sum-completed P for which test_q_matrix got both matrices and some
\* cell of Q is not zero
C1_Witness ==
    /\ fn = "test_q_matrix" /\ pc = "done" /\ NRows(P) = 3
    /\ \E j, k \in 1..2 : Q[j][k].num # 0 /\ Qslow[j][k].num # 0
    /\ \E j, k \in 1..3 : P[j][k] < 0

\* C2 (as claimed): for method ordinal and for method random alike the
\* pipeline gets past r_matrix without an exception, and the P that
\* p_matrix makes of the rank matrix obeys the sum rule exactly.
C2_SumRuleOrdinalAndRandom ==
    (fn = "data_to_q_matrix" /\ method \in {"ordinal", "random"}
        /\ pc # "dq_r") =>
        /\ err = NoError
        /\ R # << >>
        /\ pc # "dq_p" => SumRule(P, n_r) /\ P # << >>

\* C3: when utility.rankdata has returned (either mode, any drawn
\* permutation) the ranks have the length of the input, are a permutation
\* of 0..n-1, a strictly smaller value has a strictly smaller rank, and
\* the values taken in ascending order of rank never decrease.
C3_RanksArePermutationAndMonotone ==
    (fn = "rankdata" /\ pc = "done") =>
        /\ Len(ranks) = Len(a)
        /\ {ranks[p] : p \in 1..Len(ranks)} = 0..(Len(a) - 1)
        /\ \A p, q \in 1..Len(a) : a[p] < a[q] => ranks[p] < ranks[q]
        /\ LET ordered == [r \in 1..Len(a) |->
                              a[CHOOSE p \in 1..Len(a) : ranks[p] = r - 1]]
           IN  \A r \in 1..(Len(a) - 1) : ordered[r] <= ordered[r + 1]

\* random mode has returned for a three-element input with a tie and a
\* different value, under a permutation that moved elements
C3_Witness ==
    /\ fn = "rankdata" /\ pc = "done" /\ method = "random"
    /\ Len(a) = 3 /\ HasTie(a) /\ \E p \in 1..3 : Untied(a, p)
    /\ perm # <<0, 1, 2>>
    /\ Len(ranks) = 3

\* C4: in ordinal mode, of two positions holding equal values the earlier
\* one has the lower rank.
C4_OrdinalTiesByPosition ==
    (fn = "rankdata" /\ pc = "done" /\ method = "ordinal") =>
        \A p, q \in 1..Len(a) :
            (p < q /\ a[p] = a[q]) => ranks[p] < ranks[q]

\* ordinal mode has returned for an input whose equal values are separated
\* by a smaller one
C4_Witness ==
    /\ fn = "rankdata" /\ pc = "done" /\ method = "ordinal"
    /\ Len(a) = 3 /\ a[1] = a[3] /\ a[2] < a[1]
    /\ ranks = <<1, 0, 2>>

\* C5: in random mode, the result of a call and the result of the call
\* before it on the same input (any two draws of the permutation) give
\* every untied element the same rank, and give every group of tied
\* elements the same set of ranks.
C5_RandomDrawsDifferOnlyInsideTies ==
    (fn = "rankdata" /\ pc = "done" /\ method = "random") =>
        \A c \in 1..Len(prev) :
            /\ Len(prev[c]) = Len(a) /\ Len(ranks) = Len(a)
            /\ \A p \in 1..Len(a) : Untied(a, p) => ranks[p] = prev[c][p]
            /\ \A p \in 1..Len(a) :
                  {ranks[q] : q \in {q \in 1..Len(a) : a[q] = a[p]}}
                = {prev[c][q] : q \in {q \in 1..Len(a) : a[q] = a[p]}}

\* two random-mode calls on an input with a tie and an untied element
\* returned different ranks
C5_Witness ==
    /\ fn = "rankdata" /\ pc = "done" /\ method = "random"
    /\ Len(prev) = 1 /\ prev[1] # ranks
    /\ HasTie(a) /\ \E p \in 1..Len(a) : Untied(a, p)

\* positions of a q_matrix caller before q_matrix has checked the shape
BeforeSquareCheck == {"fit_res", "dq_r", "dq_p", "t_slow", "q_square"}

\* nothing of the computation of Q exists, not even partially
NoQ == sigma = << >> /\ ind = << >> /\ D = << >> /\ Q = << >>

\* some row sum or column sum of M differs from total by more than the
\* tolerance atol + rtol*|total| of the sum check
BeyondTolerance(M, total) ==
    \E s \in {SeqSum(M[i]) : i \in 1..NRows(M)}
              \cup {SeqSum(Column(M, k)) : k \in 1..NCols(M)} :
        Abs(s - total) * AllcloseScale > 1 + AllcloseRtol * Abs(total)

\* C6: q_matrix validates before it computes.  Once past the shape check, a
\* non-square P has raised the must-be-square error (also when its sums
\* are wrong too: squareness is checked first); once past the sum check, a
\* square P with a row or column sum that differs from n_r beyond
\* tolerance has raised the sum-rule error; in both cases nothing of Q was
\* computed.  Conversely the two errors are raised for no other P.
C6_ValidationBeforeComputation ==
    (fn \in QCallers /\ pc \notin BeforeSquareCheck
        /\ err # BroadcastError /\ err.text # "unknown method") =>
        /\ NRows(P) # NCols(P) =>
              /\ pc = "raised"
              /\ err.type = "Exception"
              /\ err.text = "matrix P must be square"
              /\ NoQ
        /\ (NRows(P) = NCols(P) /\ BeyondTolerance(P, n_r) /\ pc # "q_sum") =>
              /\ pc = "raised"
              /\ err.type = "Exception"
              /\ err.text = "columns and rows in matrix P must sum up to n_r"
              /\ NoQ
        /\ (NRows(P) = NCols(P) /\ ~BeyondTolerance(P, n_r)) => pc # "raised"

\* q_matrix rejected a square P whose first row and first column obey the
\* sum rule while another row breaks it
C6_Witness ==
    /\ fn = "q_matrix" /\ pc = "raised" /\ err = SumRuleBroken
    /\ NRows(P) = 2 /\ NCols(P) = 2
    /\ SeqSum(P[1]) = n_r /\ SeqSum(Column(P, 1)) = n_r
    /\ SeqSum(P[2]) # n_r
    /\ NoQ

\* C7 (as claimed): ranking with any mode name other than ordinal or
\* random, through utility.rankdata or through r_matrix, raises the error
\* that names the mode and produces no ranks.
C7_OnlyOrdinalAndRandomRank ==
    (fn \in {"rankdata", "data_to_q_matrix"}
        /\ method \notin {"ordinal", "random"}
        /\ pc \notin {"rd_check", "dq_r"}) =>
        /\ pc = "raised"
        /\ err.type = "ValueError" /\ err.arg = method
        /\ ranks = << >> /\ R = << >>

\* C7 (amended): utility.rankdata raises the error naming the mode for
\* every mode other than ordinal and random, before it permutes, sorts or
\* ranks anything; r_matrix, which ranks with scipy.stats.rankdata, returns
\* a rank matrix for min, max and dense and raises the same error, with no
\* rank matrix, for a name that is none of ordinal, random, min, max,
\* dense, average.
C7_UnknownModeRejected ==
    /\ (fn = "rankdata" /\ method \notin {"ordinal", "random"}
          /\ pc # "rd_check") =>
          /\ pc = "raised"
          /\ err.type = "ValueError" /\ err.text = "unknown method"
          /\ err.arg = method
          /\ arr = << >> /\ perm = << >> /\ sorter = << >> /\ ranks = << >>
    /\ (fn = "data_to_q_matrix" /\ pc # "dq_r"
          /\ method \notin {"ordinal", "random", "min", "max", "dense",
                            "average"}) =>
          /\ pc = "raised"
          /\ err.type = "ValueError" /\ err.text = "unknown method"
          /\ err.arg = method
          /\ R = << >> /\ P = << >> /\ NoQ
    /\ (fn = "data_to_q_matrix" /\ pc # "dq_r"
          /\ method \in {"min", "max", "dense"}) =>
          /\ err.text # "unknown method"
          /\ Shape(R) = Shape(A)

\* utility.rankdata raised on the mode min for an input it could have ranked
C7_Witness ==
    /\ fn = "rankdata" /\ pc = "raised" /\ method = "min"
    /\ err.arg = "min" /\ Len(a) = 3 /\ ranks = << >>

\* C8 (as claimed): for a data matrix with n_r >= 2 and n_s >= 2 and for
\* method ordinal and method random alike the pipeline raises nothing, R
\* has the shape of A, P is n_s x n_s and Q is (n_s-1) x (n_s-1).
C8_ShapesOrdinalAndRandom ==
    (fn = "data_to_q_matrix" /\ method \in {"ordinal", "random"}
        /\ NRows(A) >= 2 /\ NCols(A) >= 2) =>
        /\ err = NoError
        /\ pc # "dq_r" => Shape(R) = Shape(A)
        /\ pc \notin {"dq_r", "dq_p"} => Shape(P) = <<NCols(A), NCols(A)>>
        /\ pc = "done" =>
              /\ NRows(Q) = NCols(A) - 1
              /\ \A j \in 1..NRows(Q) : Len(Q[j]) = NCols(A) - 1

\* C9: for A = [[1,2,3],[3,1,2]] and ordinal ranking the pipeline raises
\* nothing and yields R = [[0,1,2],[2,0,1]], P = [[1,1,0],[0,1,1],[1,0,1]]
\* and Q = [[9/20, 9/10], [-9/20, 9/20]].
C9_DocumentedScenario ==
    (fn = "data_to_q_matrix" /\ A = ScenarioA /\ method = "ordinal") =>
        /\ pc # "raised"
        /\ pc # "dq_r" => R = <<<<0, 1, 2>>, <<2, 0, 1>>>>
        /\ pc \notin {"dq_r", "dq_p"} =>
              P = <<<<1, 1, 0>>, <<0, 1, 1>>, <<1, 0, 1>>>>
        /\ pc = "done" =>
              /\ Shape(Q) = <<2, 2>>
              /\ \A j, k \in 1..2 : Q[j][k].den # 0
              /\ RatEq(Q[1][1], [num |-> 9, den |-> 20])
              /\ RatEq(Q[1][2], [num |-> 9, den |-> 10])
              /\ RatEq(Q[2][1], [num |-> 0 - 9, den |-> 20])
              /\ RatEq(Q[2][2], [num |-> 9, den |-> 20])

\* the pipeline has returned Q for the documented data matrix
C9_Witness ==
    /\ fn = "data_to_q_matrix" /\ A = ScenarioA /\ method = "ordinal"
    /\ pc = "done" /\ Shape(Q) = <<2, 2>>

\* C10: for a rank matrix R with entries in 0..n_s-1, p_matrix raises
\* nothing and returns an n_s x n_s matrix whose cell (r, k) is the number
\* of repetitions i with R[i,k] = r, a non-negative integer, for every r in
\* 0..n_s-1 whether or not the rank occurs in the column.
C10_PopulationCounts ==
    (fn \in {"p_matrix", "data_to_q_matrix"} /\ pc \notin {"dq_r", "dq_p"}
        /\ R # << >>
        /\ \A i \in 1..NRows(R) : \A k \in 1..NCols(R) :
              R[i][k] \in 0..(NCols(R) - 1)) =>
        /\ err # BroadcastError
        /\ NRows(P) = NCols(R)
        /\ \A r \in 1..NRows(P) :
              /\ Len(P[r]) = NCols(R)
              /\ \A k \in 1..NCols(R) :
                    /\ P[r][k] \in Nat
                    /\ P[r][k] =
                         Cardinality({i \in 1..NRows(R) : R[i][k] = r - 1})

\* p_matrix returned for a rank matrix in which the highest rank never
\* occurs and the first column holds rank 0 twice
C10_Witness ==
    /\ fn = "p_matrix" /\ pc = "done"
    /\ Shape(R) = <<2, 2>>
    /\ \A i \in 1..2 : \A k \in 1..2 : R[i][k] = 0
    /\ P = <<<<2, 2>>, <<0, 0>>>>

\* least common multiple of the denominators of a sequence of fractions
RECURSIVE LcmOfDens(_)
LcmOfDens(s) ==
    IF s = << >> THEN 1
    ELSE LET l == LcmOfDens(Tail(s))
         IN  (Abs(Head(s).den) * l) \div Gcd(Head(s).den, l)

\* the fraction x is the mean of the squares of the fractions in cells: with
\* L a common denominator, x = (sum of (num * L/den)^2) / (N * L^2)
IsMeanOfSquares(x, cells) ==
    LET L == LcmOfDens(cells)
        S == SeqSum([c \in 1..Len(cells) |->
                 (cells[c].num * (L \div cells[c].den))
               * (cells[c].num * (L \div cells[c].den))])
    IN  /\ x.den > 0
        /\ x.num * (Len(cells) * L * L) = x.den * S

\* the residual matrix the arguments of q_rms_fit define
ExpectedResiduals ==
    [i \in 1..NRows(ydata) |-> [k \in 1..NCols(ydata) |->
        LET d == ydata[i][k] - Predict(func, xdata, params)[k]
        IN  CASE weights.shape = "none"   -> d
              [] weights.shape = "vector" -> weights.w[k] * d
              [] weights.shape = "matrix" -> weights.w[i][k] * d]]

\* the residuals q_rms_fit ranks are the weighted (or plain) differences
ResidualsAsSpecified ==
    (fn = "q_rms_fit" /\ pc # "fit_res") => A = ExpectedResiduals

\* the returned value is the root of the mean of the squared cells of Q,
\* is not negative, and is zero exactly when every cell of Q is zero
RmsAsSpecified ==
    /\ rms.kind = "real"
    /\ IsMeanOfSquares(rms.sqrt_of, Flatten(Q))
    /\ rms.sqrt_of.num >= 0
    /\ rms.sqrt_of.num = 0 <=>
          \A j \in 1..NRows(Q) : \A k \in 1..NCols(Q) : Q[j][k].num = 0

AfterIndD == {"q_Q", "fit_rms", "done"}

\* C12: once the fast q_matrix has computed ind and D (n_s >= 2), for every
\* j, k in 1..n_s-1: ind(j,k) = 2jk - (j+k) n_s is negative, ind(j,k) + n_s^2
\* is positive, D(j,k) = -ind(j,k) (ind(j,k) + n_s^2) is positive and is the
\* product (size(S1)+size(S3)) * (size(S2)+size(S4)) of the partition at the
\* cut (j, k); and for n_r # 0 no cell of the returned Q has a zero
\* denominator.
C12_IndexTermsKeepDPositive ==
    (fn \in QCallers /\ pc \in AfterIndD /\ err = NoError) =>
        LET n_s == NRows(P)
        IN  /\ NRows(ind) = n_s - 1 /\ NRows(D) = n_s - 1
            /\ \A j, k \in 1..(n_s - 1) :
                  /\ ind[j][k] = 2*j*k - (j + k)*n_s
                  /\ ind[j][k] < 0
                  /\ ind[j][k] + n_s*n_s > 0
                  /\ D[j][k] = (0 - ind[j][k]) * (ind[j][k] + n_s*n_s)
                  /\ D[j][k] > 0
                  /\ D[j][k] =
                        (BlockSize(1, j, k + 1, n_s) + BlockSize(j + 1, n_s, 1, k))
                      * (BlockSize(1, j, 1, k) + BlockSize(j + 1, n_s, k + 1, n_s))
                  /\ (pc # "q_Q" /\ n_r # 0) => Q[j][k].den # 0

\* q_matrix returned for n_s = 3, where the four cuts give ind = -4 or -5
\* and D = 20 throughout
C12_Witness ==
    /\ fn = "test_q_matrix" /\ pc = "done" /\ NRows(P) = 3
    /\ ind = <<<<0 - 4, 0 - 5>>, <<0 - 5, 0 - 4>>>>
    /\ D = <<<<20, 20>>, <<20, 20>>>>
    /\ \A j, k \in 1..2 : Q[j][k].den = 20 * n_r

\* the methods under which tied values share a rank
TieSharing == {"min", "max", "dense"}

\* positions of data_to_q_matrix at which P does not exist yet
BeforeP == {"fit_res", "dq_r", "dq_p"}

\* P is square, all its column sums equal total and some row sum does not
ColumnsOnlySumRule(M, total) ==
    /\ NRows(M) = NCols(M)
    /\ \A k \in 1..NCols(M) : SeqSum(Column(M, k)) = total
    /\ \E i \in 1..NRows(M) : SeqSum(M[i]) # total

\* q_matrix stopped at the sum check and computed nothing
SumRuleRaised == pc = "raised" /\ err = SumRuleBroken /\ NoQ

\* C13 (as claimed): with method min, max or dense and a row of A holding
\* two equal values, every column sum of P = p_matrix(r_matrix(A, method))
\* equals n_r and some row sum differs from n_r, so that q_matrix, and with
\* it data_to_q_matrix, fails with the sum-rule error: a square P with
\* column sums n_r and a row sum other than n_r never gets past the sum
\* check.
C13_TieSharingFailsSumRule ==
    /\ (fn \in {"data_to_q_matrix", "q_rms_fit"} /\ method \in TieSharing
          /\ pc \notin BeforeP /\ \E i \in 1..NRows(A) : HasTie(A[i])) =>
          /\ ColumnsOnlySumRule(P, n_r)
          /\ pc \notin {"q_square", "q_sum"} => SumRuleRaised
    /\ (fn \in QCallers /\ pc \notin BeforeSquareCheck /\ pc # "q_sum"
          /\ ColumnsOnlySumRule(P, n_r)) => SumRuleRaised

\* C13 (amended): with method min, max or dense and a row of A holding two
\* equal values, every column sum of P equals n_r and some row sum differs
\* from n_r; for n_r below LargeNr the difference is beyond the tolerance of
\* the sum check.  Whenever it is beyond the tolerance, q_matrix fails
\* with the sum-rule error and nothing of Q is computed; a square P with
\* column sums n_r whose row sums differ from n_r within the tolerance
\* (n_r >= LargeNr) passes the sum check and q_matrix returns Q for it.
C13_TieSharingFailsSumRuleBeyondTolerance ==
    /\ (fn \in {"data_to_q_matrix", "q_rms_fit"} /\ method \in TieSharing
          /\ pc \notin BeforeP /\ \E i \in 1..NRows(A) : HasTie(A[i])) =>
          /\ ColumnsOnlySumRule(P, n_r)
          /\ n_r < LargeNr => BeyondTolerance(P, n_r)
    /\ (fn \in QCallers /\ pc \notin BeforeSquareCheck /\ pc # "q_sum"
          /\ ColumnsOnlySumRule(P, n_r)) =>
          IF BeyondTolerance(P, n_r)
          THEN SumRuleRaised
          ELSE /\ n_r >= LargeNr
               /\ pc # "raised" /\ err = NoError
               /\ pc = "done" => Shape(Q) = <<NRows(P) - 1, NRows(P) - 1>>

\* data_to_q_matrix failed with the sum-rule error for two repetitions
\* ranked with method min, the first of them a tie
C13_Witness ==
    /\ fn = "data_to_q_matrix" /\ method = "min" /\ A = <<<<1, 1>>, <<1, 2>>>>
    /\ R = <<<<0, 0>>, <<0, 1>>>> /\ P = <<<<2, 1>>, <<0, 1>>>>
    /\ SumRuleRaised

\* positions at which q_matrix has returned
QReturned == {"fit_rms", "done"}

\* the number of cells of the matrix M
CellCount(M) == SeqSum([i \in 1..NRows(M) |-> Len(M[i])])

\* C14: for n_s = 1 the valid population matrix P = [[n_r]] passes both
\* checks of q_matrix, no error is raised at any later position, and
\* q_matrix returns the empty Q of shape (0, 0), sigma, ind and D being
\* empty too so that no cell is evaluated; for n_s = 2 the returned Q has
\* shape (1, 1), exactly one cell.
C14_SingleSampleGivesEmptyQ ==
    /\ (fn \in QCallers /\ pc \notin BeforeSquareCheck
          /\ P = <<<<n_r>>>>) =>
          /\ pc # "raised" /\ err = NoError
          /\ pc \in QReturned =>
                /\ Shape(Q) = <<0, 0>> /\ CellCount(Q) = 0
                /\ sigma = << >> /\ ind = << >> /\ D = << >>
    /\ (fn \in QCallers /\ pc \in QReturned /\ NRows(P) = 2) =>
          /\ Shape(Q) = <<1, 1>> /\ CellCount(Q) = 1

\* q_matrix called with P = [[1]] and n_r = 1 returned the empty Q
C14_Witness ==
    /\ fn = "q_matrix" /\ pc = "done" /\ err = NoError
    /\ P = <<<<1>>>> /\ n_r = 1
    /\ Q = << >>

====
